---- MODULE Spec2Model ----
(***************************************************************************)
(* A model of axi's Device (src/axi/device.py): the step synthesizer       *)
(* run_plan with its residual error, the idle wait, run_path, run_drawing, *)
(* move/goto/home and the pen commands, driven through one session of API  *)
(* calls.  Reals are fixed point: a coordinate is an integer number of     *)
(* quanta, PosDen quanta to the plotting unit, and a step count that the   *)
(* code holds as a float is a numerator over PosDen.  Time is in ms.       *)
(***************************************************************************)
EXTENDS Integers, Sequences, FiniteSets, TLC

VARIABLES
    pc,         \* control position of the session
    op,         \* the API call in progress; between calls the pen or setup
                \* call that returned last ("none" after a motion call)
    error,      \* Device.error: <<ex, ey>>, numerators over PosDen
    pen,        \* what the last SP command left the pen: "IDLE", "UP", "DOWN"
    plan,       \* the plan run_plan is executing
    t,          \* run_plan's loop variable t, in ms
    cur,        \* plan.instant(t).p for the current t
    idx,        \* the vertex of plan.path that cur is at (0: not at one)
    wire,       \* the commands run_plan has written in the current call
    lastCmd,    \* the last command written to the serial port
    status,     \* the last answer motor_status() returned
    polls,      \* busy answers wait() has seen in the current call
    drift,      \* session sum of emitted deltas minus scaled plan displacements
    drawing,    \* run_drawing's argument: drawing.paths
    k,          \* run_drawing's loop index into drawing.paths
    position,   \* run_drawing's local variable position
    dstep,      \* where run_drawing is in its loop body
    dlog,       \* what run_drawing has done so far: pen commands and run_path calls
    opsLeft,    \* API calls the session may still make
    kwargs,     \* the keyword arguments Device(...) is called with
    cfg,        \* the pen settings of the Device: attributes set by __init__
    port,       \* what find_port() returned
    serial,     \* Device.serial: "none" until Serial(port, timeout=1) opens it
    sc,         \* the SC commands written so far
    reads,      \* response lines read since lastCmd was written
    unread,     \* a response line of an earlier command is still unread
    lists,      \* the path lists on the heap
    objs,       \* the Drawing objects: their paths reference and _bounds
    dop         \* the last call that returned a Drawing: its name, receiver,
                \* arguments and the object returned

\* What the constructor leaves behind, and the heap of Drawing objects.
setup == <<kwargs, cfg, port, serial, sc>>
heap == <<lists, objs, dop>>

vars == <<pc, op, error, pen, plan, t, cur, idx, wire, lastCmd, status,
          polls, drift, drawing, k, position, dstep, dlog, opsLeft,
          kwargs, cfg, port, serial, sc, reads, unread, lists, objs, dop>>

----------------------------------------------------------------------------
\* Bounds of the model.

\* Half the number of quanta one step is divided into.
HalfFrac == 2
\* The longest plan, in whole ticks.
MaxTicks == 2
\* The most busy answers one wait() sees.
MaxPolls == 1
\* The most API calls in one session.
MaxOps == 2
\* The most paths in a drawing.
MaxPaths == 2

----------------------------------------------------------------------------
\* Constants of device.py.

TIMESLICE_MS == 15
MICROSTEPPING_MODE == 2
STEP_DIVIDER == 2 ^ (MICROSTEPPING_MODE - 1)
STEPS_PER_INCH == 2032 \div STEP_DIVIDER
PEN_UP_POSITION == 60
PEN_UP_SPEED == 150
PEN_UP_DELAY == 0
PEN_DOWN_POSITION == 50
PEN_DOWN_SPEED == 150
PEN_DOWN_DELAY == 0

\* Device.__init__: self.steps_per_unit = STEPS_PER_INCH
steps_per_unit == STEPS_PER_INCH

----------------------------------------------------------------------------
\* Fixed point.

FracDen == 2 * HalfFrac
\* Quanta per plotting unit: a step is FracDen quanta.
PosDen == steps_per_unit * FracDen
\* A coordinate that is a fraction of a step short of a whole step.
Frac == FracDen - 1

Abs(n) == IF n < 0 THEN -n ELSE n
Max(a, b) == IF a >= b THEN a ELSE b
\* int(): truncation toward zero of num/den, den > 0.
Trunc(num, den) == IF num >= 0 THEN num \div den ELSE -((-num) \div den)

\* math.modf(v): the integer part of v = n/PosDen, with the sign of v.
ModfInt(n) == Trunc(n, PosDen)
\* A split that carries the whole value on instead of its fractional part.
ModfFracKeepsAll(n) == n
\* math.modf(v): the fractional part of v = n/PosDen, with the sign of v.
ModfFrac(n) == n - ModfInt(n) * PosDen

\* d.x * self.steps_per_unit, for d.x = dq/PosDen units: steps, over PosDen.
Scale(dq) == dq * steps_per_unit

Sub(p, q) == <<p[1] - q[1], p[2] - q[2]>>

\* drift is kept within one step of zero, the range the session's drift is
\* to stay inside: a value at the edge says the drift has left it.
Clip(n) == IF n > PosDen THEN PosDen ELSE IF n < -PosDen THEN -PosDen ELSE n

----------------------------------------------------------------------------
\* Inputs.

Origin == <<0, 0>>
\* A point a fraction of a step off the origin, and its mirror image.
Near == <<Frac, -Frac>>
Mirror == <<-Frac, Frac>>
Points == {Origin, Near, Mirror}
UnitPath == <<Origin, <<PosDen, 0>>, <<PosDen, PosDen>>>>
\* The paths handed to run_path.
Paths ==
    {<<p>> : p \in Points} \cup {<<p, q>> : p, q \in Points}
        \cup {UnitPath, <<Near, Mirror, Near>>}
\* The paths of a drawing: non-empty.
DrawPaths == {<<Near>>, <<Mirror, Near>>, UnitPath}
Drawings == UNION {[1..n -> DrawPaths] : n \in 0..MaxPaths}

Last(s) == s[Len(s)]
Distinct(path) == Cardinality({path[i] : i \in DOMAIN path})

\* Planner.plan(path).t: zero for a path of at most one distinct point, else
\* positive; whole ticks, or whole ticks and a third of a tick.
PartialMs == TIMESLICE_MS \div 3
Durations ==
    {n * TIMESLICE_MS + r : n \in 0..MaxTicks, r \in {0, PartialMs}}
        \cap (0..(MaxTicks * TIMESLICE_MS))
PlanDurations(path) ==
    IF Distinct(path) <= 1 THEN {0} ELSE Durations \ {0}

\* What instant may return for a t outside 0..plan.t, where it is undefined:
\* the last point of the path, or a point that has nothing to do with the plan.
OutOfRange(pl) == {Last(pl.path), <<PosDen, PosDen>>}

\* plan.instant(t2).p, given that instant(t) is at vertex i of the path (i = 0
\* cannot happen for t in range).  In range the plan moves forward along the
\* path and is at its last point at plan.t.
InstantChoices(pl, i, t2) ==
    IF t2 < pl.T THEN {[p |-> pl.path[j], i |-> j] : j \in i..Len(pl.path)}
    ELSE IF t2 = pl.T THEN {[p |-> Last(pl.path), i |-> Len(pl.path)]}
    ELSE {[p |-> q, i |-> 0] : q \in OutOfRange(pl)}

\* The QM answers: fields after the name; <<>> is the empty line readline()
\* returns when the read times out (Serial(port, timeout=1)).
QMIdle == <<0, 0, 0>>
QMResponses == {QMIdle, <<1, 1, 0>>, <<>>}
\* '1' in response
ContainsOne(resp) == \E i \in DOMAIN resp : resp[i] = 1

NoPlan == [path |-> <<Origin>>, T |-> 0, e0 |-> <<0, 0>>, phase |-> "none"]
NoCmd == <<"none">>
NoResp == <<>>

----------------------------------------------------------------------------
\* Device.__init__ and configure.

VID_PID == "04D8:FD92"
\* comports(): a port is <<name, description, hardware id>>; the hardware id
\* is the set of ids it contains.
AxiPort == <<"ttyACM0", "EiBotBoard", {VID_PID}>>
OtherPort == <<"ttyS0", "n/a", {"PNP0501"}>>
PortLists == {<<>>, <<OtherPort>>, <<AxiPort>>, <<OtherPort, AxiPort>>}
NoPort == "None"

\* find_port(): the name of the first port whose hardware id contains VID_PID
RECURSIVE find_port(_)
find_port(ports) ==
    IF ports = <<>> THEN NoPort
    ELSE IF VID_PID \in Head(ports)[3] THEN Head(ports)[1]
    ELSE find_port(Tail(ports))

\* A constructor that goes on without a port.
PortMissingIgnored(p) == FALSE
\* __init__: if port is None: raise
PortMissing(p) == p = NoPort

\* __init__: the pen attributes and their defaults.
Defaults ==
    [pen_up_position |-> PEN_UP_POSITION, pen_up_speed |-> PEN_UP_SPEED,
     pen_up_delay |-> PEN_UP_DELAY, pen_down_position |-> PEN_DOWN_POSITION,
     pen_down_speed |-> PEN_DOWN_SPEED, pen_down_delay |-> PEN_DOWN_DELAY]
\* A constructor that leaves the keyword arguments out.
SettingsIgnored(kw) == Defaults
\* for k, v in kwargs.items(): setattr(self, k, v)
Settings(kw) ==
    [n \in DOMAIN Defaults |-> IF n \in DOMAIN kw THEN kw[n] ELSE Defaults[n]]

\* A constructor that sets error before it applies the keyword arguments.
ErrorBeforeKwargs(kw) == IF "error" \in DOMAIN kw THEN kw.error ELSE <<0, 0>>
\* __init__: self.error = (0, 0), after the keyword arguments are applied
ErrorAfterInit(kw) == <<0, 0>>

\* The keyword arguments of a session that plots: none, or a residual.
NoKwargs == <<>>
SessionKwargs == {NoKwargs, [error |-> <<Frac, -Frac>>]}
\* The keyword arguments of a session that moves the pen only.
PenPositions == {0, PEN_DOWN_POSITION, PEN_UP_POSITION, 100}
PenSpeeds == {1, PEN_UP_SPEED}
PenDelays == {-100, PEN_UP_DELAY, 100}
PenKwargs ==
    {NoKwargs, [error |-> <<Frac, -Frac>>]}
        \cup {[pen_up_position |-> u, pen_down_position |-> d] :
                u, d \in PenPositions}
        \cup {[pen_up_speed |-> v, pen_up_delay |-> w] :
                v \in PenSpeeds, w \in PenDelays}
        \cup {[pen_down_speed |-> v, pen_down_delay |-> w] :
                v \in PenSpeeds, w \in PenDelays}

\* configure: servo_min and servo_max
servo_min == 7500
servo_max == 28000
\* configure: int(servo_min + (servo_max - servo_min) * (position / 100))
ServoPosition(p) == Trunc(servo_min * 100 + (servo_max - servo_min) * p, 100)
\* configure: int(speed * 5)
ServoSpeed(v) == Trunc(v * 5, 1)
\* configure: the four SC commands, in the order written
ConfigureCmds(c) ==
    << <<"SC", 4, ServoPosition(c.pen_up_position)>>,
       <<"SC", 5, ServoPosition(c.pen_down_position)>>,
       <<"SC", 11, ServoSpeed(c.pen_up_speed)>>,
       <<"SC", 12, ServoSpeed(c.pen_down_speed)>> >>

\* command(): the readline() calls after one write
CommandReads == 1
\* read_position: command('QS'), then self.readline() once more
QSReads == CommandReads + 1
\* The response lines the board sends for a command: two for QS, else one.
DeviceLines(name) == IF name = "QS" THEN 2 ELSE 1
\* A command written and its response lines read: a line the board sends
\* beyond the ones read stays unread.
Sent(cmd, n) ==
    /\ lastCmd' = cmd
    /\ reads' = n
    /\ unread' = (unread \/ DeviceLines(cmd[1]) > n)

NoDop == [name |-> "none", self |-> 0, ret |-> 0, arg |-> <<>>]

\* Before Device(**kwargs) is called; the attributes have the values
\* __init__ starts from.
InitWith(K) ==
    /\ pc = "new"
    /\ op = "none"
    /\ error = <<0, 0>>
    /\ pen = "IDLE"
    /\ plan = NoPlan
    /\ t = 0
    /\ cur = Origin
    /\ idx = 0
    /\ wire = <<>>
    /\ lastCmd = NoCmd
    /\ status = NoResp
    /\ polls = 0
    /\ drift = <<0, 0>>
    /\ drawing = <<>>
    /\ k = 0
    /\ position = Origin
    /\ dstep = "none"
    /\ dlog = <<>>
    /\ opsLeft = MaxOps
    /\ kwargs \in K
    /\ cfg = Defaults
    /\ port = NoPort
    /\ serial = "none"
    /\ sc = <<>>
    /\ reads = 0
    /\ unread = FALSE
    /\ lists = <<>>
    /\ objs = <<>>
    /\ dop = NoDop

Init == InitWith(SessionKwargs)

\* Device(**kwargs): the defaults, the keyword arguments, error, find_port;
\* without a port the constructor raises, else it opens the port and
\* configure() writes the SC commands.
Construct ==
    /\ pc = "new"
    /\ cfg' = Settings(kwargs)
    /\ error' = ErrorAfterInit(kwargs)
    /\ kwargs' = NoKwargs
    /\ \E ports \in PortLists :
        /\ port' = find_port(ports)
        /\ IF PortMissing(find_port(ports))
           THEN /\ pc' = "failed"
                /\ UNCHANGED <<serial, sc, lastCmd, reads, unread>>
           ELSE /\ pc' = "idle"
                /\ serial' = "open"
                /\ sc' = ConfigureCmds(Settings(kwargs))
                /\ Sent(Last(ConfigureCmds(Settings(kwargs))), CommandReads)
    /\ UNCHANGED <<op, pen, plan, t, cur, idx, wire, status, polls, drift,
                   drawing, k, position, dstep, dlog, opsLeft>>
    /\ UNCHANGED heap

----------------------------------------------------------------------------
\* Pen commands.

\* A delay that is not held at zero from below.
PenDelayUnclamped(speed, extra) ==
    Trunc(1000 * Abs(cfg.pen_up_position - cfg.pen_down_position), speed) + extra
\* pen_up / pen_down: duration = int(1000 * delta / speed);
\* delay = max(0, duration + extra delay)
PenDelay(speed, extra) ==
    Max(0, Trunc(1000 * Abs(cfg.pen_up_position - cfg.pen_down_position), speed)
            + extra)

\* The first argument of the SP command pen_up sends.
PenUpArg == 1
\* A pen_down that sends pen_up's argument.
PenDownArgRaises == PenUpArg
\* The first argument of the SP command pen_down sends.
PenDownArg == 0
\* SP,1 raises the pen and SP,0 lowers it.
PenAfter(v) == IF v = 1 THEN "UP" ELSE "DOWN"

PenUpCmd == <<"SP", PenUpArg, PenDelay(cfg.pen_up_speed, cfg.pen_up_delay)>>
PenDownCmd == <<"SP", PenDownArg, PenDelay(cfg.pen_down_speed, cfg.pen_down_delay)>>

\* What run_drawing's log holds.
PenEvent(v) == [ev |-> "SP", arg |-> v, path |-> <<>>]
PathEvent(path) == [ev |-> "run_path", arg |-> 0, path |-> path]

\* An API call starts between calls, while the session may still make one.
CanCall == pc = "idle" /\ opsLeft > 0

\* Device.pen_up()
PenUp ==
    /\ CanCall
    /\ pen' = PenAfter(PenUpArg)
    /\ Sent(PenUpCmd, CommandReads)
    /\ op' = "pen_up"
    /\ opsLeft' = opsLeft - 1
    /\ UNCHANGED <<pc, error, plan, t, cur, idx, wire, status, polls,
                   drift, drawing, k, position, dstep, dlog>>
    /\ UNCHANGED <<setup, heap>>

\* Device.pen_down()
PenDown ==
    /\ CanCall
    /\ pen' = PenAfter(PenDownArg)
    /\ Sent(PenDownCmd, CommandReads)
    /\ op' = "pen_down"
    /\ opsLeft' = opsLeft - 1
    /\ UNCHANGED <<pc, error, plan, t, cur, idx, wire, status, polls,
                   drift, drawing, k, position, dstep, dlog>>
    /\ UNCHANGED <<setup, heap>>

\* Device.configure(), called again by the session
Configure ==
    /\ CanCall
    /\ sc' = sc \o ConfigureCmds(cfg)
    /\ Sent(Last(ConfigureCmds(cfg)), CommandReads)
    /\ op' = "configure"
    /\ opsLeft' = opsLeft - 1
    /\ UNCHANGED <<pc, error, pen, plan, t, cur, idx, wire, status, polls,
                   drift, drawing, k, position, dstep, dlog>>
    /\ UNCHANGED <<kwargs, cfg, port, serial, heap>>

----------------------------------------------------------------------------
\* run_path and run_plan.

\* run_path(path): plan = planner.plan(path), then run_plan(plan) up to the
\* head of its loop (t = 0).  drift takes the plan's scaled displacement,
\* instant(plan.t).p - instant(0).p = last point - first point.
StartPlan(path, phase) ==
    \E T \in PlanDurations(path) :
        /\ plan' = [path |-> path, T |-> T, e0 |-> error, phase |-> phase]
        /\ t' = 0
        /\ cur' = path[1]
        /\ idx' = 1
        /\ wire' = <<>>
        /\ polls' = 0
        /\ drift' = <<drift[1] - Scale(Sub(Last(path), path[1])[1]),
                      drift[2] - Scale(Sub(Last(path), path[1])[2])>>
        /\ pc' = "tick"

\* Device.run_path(path)
RunPath ==
    /\ CanCall
    /\ \E path \in Paths : StartPlan(path, "path")
    /\ op' = "run_path"
    /\ opsLeft' = opsLeft - 1
    /\ UNCHANGED <<error, pen, lastCmd, reads, unread, status, drawing, k,
                   position, dstep, dlog>>
    /\ UNCHANGED <<setup, heap>>

\* Device.move(dx, dy): run_path([(0, 0), (dx, dy)])
Move ==
    /\ CanCall
    /\ \E p \in Points : StartPlan(<<Origin, p>>, "travel")
    /\ op' = "move"
    /\ opsLeft' = opsLeft - 1
    /\ UNCHANGED <<error, pen, lastCmd, reads, unread, status, drawing, k,
                   position, dstep, dlog>>
    /\ UNCHANGED <<setup, heap>>

\* The step counters a QS answer may carry.
StepCounts == {0, 1}
\* a /= self.steps_per_unit: steps to plotting units, in quanta.
ToUnits(a) == (a * PosDen) \div steps_per_unit
\* read_position: y = (a - b) / 2; x = y + b
ReadPosition(a, b) ==
    LET y == (ToUnits(a) - ToUnits(b)) \div 2
    IN  <<y + ToUnits(b), y>>
QSCmd == <<"QS">>

\* Device.read_position(), called by the session: QS, two lines read
ReadPos ==
    /\ CanCall
    /\ Sent(QSCmd, QSReads)
    /\ op' = "read_position"
    /\ opsLeft' = opsLeft - 1
    /\ UNCHANGED <<pc, error, pen, plan, t, cur, idx, wire, status, polls,
                   drift, drawing, k, position, dstep, dlog>>
    /\ UNCHANGED <<setup, heap>>

\* goto(x, y): px, py = read_position(); run_path([(px, py), (x, y)])
GotoFrom(target, name) ==
    /\ CanCall
    /\ Sent(QSCmd, QSReads)
    /\ \E a, b \in StepCounts : StartPlan(<<ReadPosition(a, b), target>>, "travel")
    /\ op' = name
    /\ opsLeft' = opsLeft - 1
    /\ UNCHANGED <<error, pen, status, drawing, k, position, dstep, dlog>>
    /\ UNCHANGED <<setup, heap>>

\* Device.goto(x, y)
Goto == \E p \in Points \ {Origin} : GotoFrom(p, "goto")

\* Device.home(): goto(0, 0)
Home == GotoFrom(Origin, "home")

\* A loop that runs one more tick when t reaches plan.t exactly.
LoopCondInclusive(time, total) == time <= total
\* run_plan: while t < plan.t
LoopCond(time, total) == time < total

\* run_plan: d.x and d.y, the displacement that becomes the first and the
\* second delta of the XM command.
FirstAxis(d) == d[1]
SecondAxis(d) == d[2]

XMEntry(sx, sy, t2, d) ==
    [cmd |-> "XM", ms |-> TIMESLICE_MS, a |-> sx, b |-> sy, t1 |-> t, t2 |-> t2,
     d |-> d, e |-> error, pen |-> pen, resp |-> NoResp]
QMEntry(r) ==
    [cmd |-> "QM", ms |-> 0, a |-> 0, b |-> 0, t1 |-> t, t2 |-> t,
     d |-> <<0, 0>>, e |-> error, pen |-> pen, resp |-> r]

\* One iteration of run_plan's loop: sample the plan at t and t + step_s, split
\* the scaled displacement plus the carried error with modf, send XM.
Tick ==
    /\ pc = "tick"
    /\ LoopCond(t, plan.T)
    /\ \E s \in InstantChoices(plan, idx, t + TIMESLICE_MS) :
        LET d  == Sub(s.p, cur)
            vx == Scale(FirstAxis(d)) + error[1]
            vy == Scale(SecondAxis(d)) + error[2]
            sx == ModfInt(vx)
            sy == ModfInt(vy)
        IN  /\ error' = <<ModfFrac(vx), ModfFrac(vy)>>
            /\ wire' = Append(wire, XMEntry(sx, sy, t + TIMESLICE_MS, d))
            /\ Sent(<<"XM", TIMESLICE_MS, sx, sy>>, CommandReads)
            /\ drift' = <<drift[1] + sx * PosDen, drift[2] + sy * PosDen>>
            /\ cur' = s.p
            /\ idx' = s.i
    /\ t' = t + TIMESLICE_MS
    /\ UNCHANGED <<pc, op, pen, plan, status, polls, drawing, k, position,
                   dstep, dlog, opsLeft>>
    /\ UNCHANGED <<setup, heap>>

\* run_plan's loop ends: self.wait() is next.
LoopExit ==
    /\ pc = "tick"
    /\ ~LoopCond(t, plan.T)
    /\ pc' = "wait"
    /\ drift' = <<Clip(drift[1]), Clip(drift[2])>>
    /\ UNCHANGED <<op, error, pen, plan, t, cur, idx, wire, lastCmd, reads,
                   unread, status, polls, drawing, k, position, dstep, dlog,
                   opsLeft>>
    /\ UNCHANGED <<setup, heap>>

\* A wait that never sees the motors idle.
WaitOverNever(resp) == FALSE
\* wait: the loop `while '1' in self.motor_status()` ends
WaitOver(resp) == ~ContainsOne(resp)

\* Device.wait(), called by the session
Wait ==
    /\ CanCall
    /\ pc' = "wait"
    /\ op' = "wait"
    /\ opsLeft' = opsLeft - 1
    /\ UNCHANGED <<error, pen, plan, t, cur, idx, wire, lastCmd, reads, unread,
                   status, polls, drift, drawing, k, position, dstep, dlog>>
    /\ UNCHANGED <<setup, heap>>

\* wait: a QM answer with a '1' in it; sleep and ask again.
WaitBusy ==
    /\ pc = "wait"
    /\ polls < MaxPolls
    /\ \E r \in QMResponses :
        /\ ~WaitOver(r)
        /\ status' = r
        /\ wire' = Append(wire, QMEntry(r))
    /\ Sent(<<"QM">>, CommandReads)
    /\ polls' = polls + 1
    /\ UNCHANGED <<pc, op, error, pen, plan, t, cur, idx, drift, drawing, k,
                   position, dstep, dlog, opsLeft>>
    /\ UNCHANGED <<setup, heap>>

\* wait: the answer r has no '1' in it; wait, run_plan and run_path return, to
\* run_drawing or to the session.  late: the read timed out and the board's
\* answer comes after it, to stay unread.
WaitReturnOn(r, late) ==
    /\ pc = "wait"
    /\ WaitOver(r)
    /\ status' = r
    /\ lastCmd' = <<"QM">>
    /\ reads' = CommandReads
    /\ unread' = (unread \/ late)
    /\ plan' = NoPlan
    /\ t' = 0
    /\ cur' = Origin
    /\ idx' = 0
    /\ wire' = <<>>
    /\ polls' = 0
    /\ pc' = IF op = "run_drawing" THEN "drawing" ELSE "idle"
    /\ op' = IF op = "run_drawing" THEN op ELSE "none"
    /\ UNCHANGED <<error, pen, drift, drawing, k, position, dstep, dlog, opsLeft>>
    /\ UNCHANGED <<setup, heap>>

\* wait returns on an answer, or on a read that timed out with no answer.
WaitReturn == \E r \in QMResponses : WaitReturnOn(r, FALSE)

\* wait returns on a read that timed out, and the answer comes late.
WaitReturnLate == WaitReturnOn(<<>>, TRUE)

----------------------------------------------------------------------------
\* run_drawing.

\* run_drawing(drawing): self.pen_up(); position = (0, 0); the loop is next.
RunDrawing ==
    /\ CanCall
    /\ \E dr \in Drawings : drawing' = dr
    /\ op' = "run_drawing"
    /\ pen' = PenAfter(PenUpArg)
    /\ Sent(PenUpCmd, CommandReads)
    /\ dlog' = <<PenEvent(PenUpArg)>>
    /\ position' = Origin
    /\ k' = 1
    /\ dstep' = "loop"
    /\ pc' = "drawing"
    /\ opsLeft' = opsLeft - 1
    /\ UNCHANGED <<error, plan, t, cur, idx, wire, status, polls, drift>>
    /\ UNCHANGED <<setup, heap>>

\* for path in drawing.paths: self.run_path([position, path[0]])
DrawingTravel ==
    /\ pc = "drawing" /\ dstep = "loop"
    /\ k <= Len(drawing)
    /\ StartPlan(<<position, drawing[k][1]>>, "travel")
    /\ dlog' = Append(dlog, PathEvent(<<position, drawing[k][1]>>))
    /\ dstep' = "down"
    /\ UNCHANGED <<op, error, pen, lastCmd, reads, unread, status, drawing, k,
                   position, opsLeft>>
    /\ UNCHANGED <<setup, heap>>

\* self.pen_down(); self.run_path(path)
DrawingDraw ==
    /\ pc = "drawing" /\ dstep = "down"
    /\ pen' = PenAfter(PenDownArg)
    /\ Sent(PenDownCmd, CommandReads)
    /\ StartPlan(drawing[k], "draw")
    /\ dlog' = dlog \o <<PenEvent(PenDownArg), PathEvent(drawing[k])>>
    /\ dstep' = "up"
    /\ UNCHANGED <<op, error, status, drawing, k, position, opsLeft>>
    /\ UNCHANGED <<setup, heap>>

\* self.pen_up(); position = path[-1]; the next path
DrawingPenUp ==
    /\ pc = "drawing" /\ dstep = "up"
    /\ pen' = PenAfter(PenUpArg)
    /\ Sent(PenUpCmd, CommandReads)
    /\ dlog' = Append(dlog, PenEvent(PenUpArg))
    /\ position' = Last(drawing[k])
    /\ k' = k + 1
    /\ dstep' = "loop"
    /\ UNCHANGED <<pc, op, error, plan, t, cur, idx, wire, status, polls,
                   drift, drawing, opsLeft>>
    /\ UNCHANGED <<setup, heap>>

\* after the loop: self.run_path([position, (0, 0)])
DrawingHome ==
    /\ pc = "drawing" /\ dstep = "loop"
    /\ k > Len(drawing)
    /\ StartPlan(<<position, Origin>>, "travel")
    /\ dlog' = Append(dlog, PathEvent(<<position, Origin>>))
    /\ dstep' = "end"
    /\ UNCHANGED <<op, error, pen, lastCmd, reads, unread, status, drawing, k,
                   position, opsLeft>>
    /\ UNCHANGED <<setup, heap>>

\* run_drawing returns.
DrawingReturn ==
    /\ pc = "drawing" /\ dstep = "end"
    /\ pc' = "idle"
    /\ op' = "none"
    /\ drawing' = <<>>
    /\ k' = 0
    /\ position' = Origin
    /\ dstep' = "none"
    /\ dlog' = <<>>
    /\ UNCHANGED <<error, pen, plan, t, cur, idx, wire, lastCmd, reads, unread,
                   status, polls, drift, opsLeft>>
    /\ UNCHANGED <<setup, heap>>

----------------------------------------------------------------------------
\* Transport failures.

\* The next thing a run_plan or run_drawing in progress does is write a
\* command: XM in the tick loop, QM in wait, SP between the paths.
Writing ==
    \/ pc = "tick" /\ LoopCond(t, plan.T)
    \/ pc = "wait"
    \/ pc = "drawing" /\ dstep \in {"down", "up"}

\* serial.write raises: nothing catches the exception, it leaves run_plan,
\* run_path and run_drawing and reaches the session, which ends.
WriteFails ==
    /\ Writing
    /\ pc' = "raised"
    /\ plan' = NoPlan
    /\ t' = 0
    /\ cur' = Origin
    /\ idx' = 0
    /\ wire' = <<>>
    /\ polls' = 0
    /\ drawing' = <<>>
    /\ k' = 0
    /\ position' = Origin
    /\ dstep' = "none"
    /\ dlog' = <<>>
    /\ UNCHANGED <<op, error, pen, lastCmd, reads, unread, status, drift, opsLeft>>
    /\ UNCHANGED <<setup, heap>>

----------------------------------------------------------------------------

\* The sessions of motion calls, with the pen calls and queries between them.
\* configure() after the constructor is a call of the pen sessions (PenNext)
\* and of LineNext.
Next ==
    \/ Construct
    \/ PenUp
    \/ PenDown
    \/ ReadPos
    \/ Wait
    \/ RunPath
    \/ Move
    \/ Goto
    \/ Home
    \/ Tick
    \/ LoopExit
    \/ WaitBusy
    \/ WaitReturn
    \/ RunDrawing
    \/ DrawingTravel
    \/ DrawingDraw
    \/ DrawingPenUp
    \/ DrawingHome
    \/ DrawingReturn
    \/ WriteFails

Spec == Init /\ [][Next]_vars

\* The sessions that set the pen up and move it, for every setting.
PenNext ==
    \/ Construct
    \/ PenUp
    \/ PenDown
    \/ Configure
    \/ Move
    \/ Tick
    \/ LoopExit
    \/ WaitBusy
    \/ WaitReturn
PenSpec == InitWith(PenKwargs) /\ [][PenNext]_vars

\* The sessions of every call, in which an answer may also come after its
\* read timed out.
LineNext == Next \/ Configure \/ WaitReturnLate
LineSpec == Init /\ [][LineNext]_vars

\* The sessions that only run plans: run_path and move, with run_plan's loop
\* and the wait behind it.
PlanNext ==
    \/ Construct
    \/ RunPath
    \/ Move
    \/ Tick
    \/ LoopExit
    \/ WaitBusy
    \/ WaitReturn
    \/ WriteFails

\* run_plan is straight-line code on one thread: a loop iteration that can run
\* does run (Tick, LoopExit), and the board in the end gives a QM answer with no
\* '1' in it (WaitReturn).
PlanFairness ==
    /\ WF_vars(Tick)
    /\ WF_vars(LoopExit)
    /\ WF_vars(WaitReturn)

PlanSpec == Init /\ [][PlanNext]_vars /\ PlanFairness

----------------------------------------------------------------------------
\* Drawing (src/axi/drawing.py).  A Drawing object holds a reference to a
\* list of paths and its cached bounds; lists holds the lists, by identity.

\* The most Drawing objects.
MaxObjs == 2
device == <<pc, op, error, pen, plan, t, cur, idx, wire, lastCmd, status,
            polls, drift, drawing, k, position, dstep, dlog, opsLeft,
            kwargs, cfg, port, serial, sc, reads, unread>>

\* The path lists a caller builds a Drawing from.
Stroke == <<<<0, 0>>, <<2, 4>>>>
Dot == <<<<-2, 6>>>>
PathLists == {<<>>, <<Stroke>>, <<Dot>>, <<Dot, Stroke>>}
\* add is called while the list grows no longer than the longest of these.
MaxListLen == Len(<<Dot, Stroke>>)

\* self._bounds = None
None == <<>>
\* if not self._bounds: None is false, a tuple of four is true
Cached(b) == b # None
\* Drawing(paths): the object, its bounds not computed yet
NewObj(l) == [paths |-> l, bounds |-> None]

MinOf(S) == CHOOSE m \in S : \A n \in S : m <= n
MaxOf(S) == CHOOSE m \in S : \A n \in S : m >= n
\* bounds: points = [(x, y) for path in self.paths for x, y in path]
AllPoints(paths) ==
    UNION {{paths[i][j] : j \in DOMAIN paths[i]} : i \in DOMAIN paths}
\* bounds: (x1, y1, x2, y2), the minima and maxima of the points, or zeros
bounds(paths) ==
    LET points == AllPoints(paths)
    IN  IF points # {}
        THEN <<MinOf({p[1] : p \in points}), MinOf({p[2] : p \in points}),
               MaxOf({p[1] : p \in points}), MaxOf({p[2] : p \in points})>>
        ELSE <<0, 0, 0, 0>>
\* What the property bounds of object i returns: the cached tuple if there
\* is one, else the computed one.
BoundsOf(i) ==
    IF Cached(objs[i].bounds) THEN objs[i].bounds
    ELSE bounds(lists[objs[i].paths])
\* The objects after object i has answered a read of bounds.
WithBounds(i) == [objs EXCEPT ![i].bounds = BoundsOf(i)]
\* width: x2 - x1; height: y2 - y1
width(b) == b[3] - b[1]
height(b) == b[4] - b[2]

\* all_paths: a travel to each path from where the one before ended, the
\* path, and at the end a travel to (0, 0).
RECURSIVE AllPathsFrom(_, _)
AllPathsFrom(paths, pos) ==
    IF paths = <<>> THEN << <<pos, <<0, 0>>>> >>
    ELSE << <<pos, Head(paths)[1]>>, Head(paths) >>
            \o AllPathsFrom(Tail(paths), Last(Head(paths)))
\* An all_paths that starts every travel at (0, 0).
all_paths_from_origin(paths) ==
    IF paths = <<>> THEN AllPathsFrom(paths, <<0, 0>>)
    ELSE << <<Origin, Head(paths)[1]>>, Head(paths) >>
            \o AllPathsFrom(Tail(paths), <<0, 0>>)
\* Drawing.all_paths
all_paths(paths) == AllPathsFrom(paths, <<0, 0>>)
\* plan_drawing: the point lists handed to planner.plan, in order
plan_drawing(paths) == all_paths(paths)

\* transform: [[func(x, y) for x, y in path] for path in self.paths]; func is
\* given by its values on the points of the paths
transform(paths, func) ==
    [i \in DOMAIN paths |-> [j \in DOMAIN paths[i] |-> func[paths[i][j]]]]
translate(paths, dx, dy) ==
    LET func == [p \in AllPoints(paths) |-> <<p[1] + dx, p[2] + dy>>]
    IN  transform(paths, func)
\* scale(sx, sy=None): args is <<sx>> or <<sx, sy>>
scale(paths, args) ==
    LET sx == args[1]
        sy == IF Len(args) = 1 THEN sx ELSE args[2]
        func == [p \in AllPoints(paths) |-> <<p[1] * sx, p[2] * sy>>]
    IN  transform(paths, func)
\* cos and sin of the quarter turns.
Cos(angle) == CASE angle = 0 -> 1 [] angle = 90 -> 0 [] angle = 180 -> -1 [] angle = 270 -> 0
Sin(angle) == CASE angle = 0 -> 0 [] angle = 90 -> 1 [] angle = 180 -> 0 [] angle = 270 -> -1
rotate(paths, angle) ==
    LET c == Cos(angle)
        s == Sin(angle)
        func == [p \in AllPoints(paths) |->
                    <<p[1] * c - p[2] * s, p[2] * c + p[1] * s>>]
    IN  transform(paths, func)
\* move(x, y, ax, ay), its arguments doubled: dx = x1 + (x2 - x1) * ax - x
MoveBy(b, xx, yy, aax, aay) ==
    <<2 * b[1] + (b[3] - b[1]) * aax - xx, 2 * b[2] + (b[4] - b[2]) * aay - yy>>
\* The move comes out in whole units.
Whole(dd) == dd[1] % 2 = 0 /\ dd[2] % 2 = 0
move(paths, b, xx, yy, aax, aay) ==
    translate(paths, -(MoveBy(b, xx, yy, aax, aay)[1] \div 2),
                     -(MoveBy(b, xx, yy, aax, aay)[2] \div 2))
\* origin(): move(0, 0, 0, 0)
origin(paths, b) == move(paths, b, 0, 0, 0, 0)
\* center(width, height): move(width / 2, height / 2, 0.5, 0.5)
center(paths, b, w, h) == move(paths, b, w, h, 1, 1)

\* A test that also drops the paths touching the right and the top edge.
OutsideOrOnEdge(x, y, w, h) == x < 0 \/ y < 0 \/ x >= w \/ y >= h
\* remove_paths_outside: if x < 0 or y < 0 or x > width or y > height
Outside(x, y, w, h) == x < 0 \/ y < 0 \/ x > w \/ y > h
\* remove_paths_outside: the inner loop; ok unless a point is outside
RECURSIVE PathOk(_, _, _)
PathOk(path, w, h) ==
    IF path = <<>> THEN TRUE
    ELSE IF Outside(Head(path)[1], Head(path)[2], w, h) THEN FALSE
    ELSE PathOk(Tail(path), w, h)
RECURSIVE remove_paths_outside(_, _, _)
remove_paths_outside(paths, w, h) ==
    IF paths = <<>> THEN <<>>
    ELSE (IF PathOk(Head(paths), w, h) THEN <<Head(paths)>> ELSE <<>>)
            \o remove_paths_outside(Tail(paths), w, h)

\* The arguments the Drawing methods are called with.
Shifts == {<<-1, 3>>}
Factors == {<<2>>, <<-1, 3>>}
Angles == {90}
Anchors == {<<2, 4, 0, 2>>}
Sizes == {<<2, 4>>}
\* func of transform: the mirror image in the diagonal.
Swap(x, y) == <<y, x>>

NewDop(name, i, r, a) == [name |-> name, self |-> i, ret |-> r, arg |-> a]

\* return Drawing(paths) at the end of a method of object i: a new list, a
\* new object; os are the objects the method leaves.
Returns(name, i, paths, a, os) ==
    /\ Len(objs) < MaxObjs
    /\ lists' = Append(lists, paths)
    /\ objs' = Append(os, NewObj(Len(lists) + 1))
    /\ dop' = NewDop(name, i, Len(objs) + 1, a)
    /\ UNCHANGED device

\* Drawing(paths) over a list the caller has built
DNew ==
    /\ Len(objs) < MaxObjs
    /\ \E c \in PathLists :
        /\ lists' = Append(lists, c)
        /\ objs' = Append(objs, NewObj(Len(lists) + 1))
        /\ dop' = NewDop("Drawing", 0, Len(objs) + 1, <<>>)
    /\ UNCHANGED device

\* Drawing(d.paths), over the list of another Drawing: paths or [] keeps
\* the list unless it is empty
DNewOver ==
    /\ Len(objs) < MaxObjs
    /\ \E i \in DOMAIN objs :
        /\ IF lists[objs[i].paths] # <<>>
           THEN /\ lists' = lists
                /\ objs' = Append(objs, NewObj(objs[i].paths))
           ELSE /\ lists' = Append(lists, <<>>)
                /\ objs' = Append(objs, NewObj(Len(lists) + 1))
        /\ dop' = NewDop("Drawing", i, Len(objs) + 1, <<>>)
    /\ UNCHANGED device

\* The paths of the Drawing handed to add: those of an object, or of a
\* Drawing built for the call.
Others == {lists[objs[j].paths] : j \in DOMAIN objs} \cup PathLists

\* add(drawing): self.paths.extend(drawing.paths); self._bounds = None
DAdd ==
    /\ \E i \in DOMAIN objs, other \in Others :
        /\ Len(lists[objs[i].paths]) + Len(other) <= MaxListLen
        /\ lists' = [lists EXCEPT ![objs[i].paths] = @ \o other]
        /\ objs' = [objs EXCEPT ![i].bounds = None]
    /\ UNCHANGED dop
    /\ UNCHANGED device

\* a read of bounds, or of width or height, which read bounds: the value
\* returned is BoundsOf(i), or width or height of it
DRead ==
    /\ \E i \in DOMAIN objs :
        /\ objs' = WithBounds(i)
    /\ UNCHANGED <<lists, dop>>
    /\ UNCHANGED device

DTransform ==
    \E i \in DOMAIN objs :
        Returns("transform", i,
                transform(lists[objs[i].paths],
                          [p \in AllPoints(lists[objs[i].paths]) |-> Swap(p[1], p[2])]),
                <<>>, objs)

DTranslate ==
    \E i \in DOMAIN objs, a \in Shifts :
        Returns("translate", i, translate(lists[objs[i].paths], a[1], a[2]), a, objs)

DScale ==
    \E i \in DOMAIN objs, a \in Factors :
        Returns("scale", i, scale(lists[objs[i].paths], a), a, objs)

DRotate ==
    \E i \in DOMAIN objs, a \in Angles :
        Returns("rotate", i, rotate(lists[objs[i].paths], a), <<a>>, objs)

\* move, origin and center read self.bounds first
DMove ==
    \E i \in DOMAIN objs, a \in Anchors :
        /\ Whole(MoveBy(BoundsOf(i), 2 * a[1], 2 * a[2], a[3], a[4]))
        /\ Returns("move", i,
                   move(lists[objs[i].paths], BoundsOf(i), 2 * a[1], 2 * a[2], a[3], a[4]),
                   a, WithBounds(i))

DOrigin ==
    \E i \in DOMAIN objs :
        Returns("origin", i, origin(lists[objs[i].paths], BoundsOf(i)), <<>>,
                WithBounds(i))

DCenter ==
    \E i \in DOMAIN objs, a \in Sizes :
        /\ Whole(MoveBy(BoundsOf(i), a[1], a[2], 1, 1))
        /\ Returns("center", i,
                   center(lists[objs[i].paths], BoundsOf(i), a[1], a[2]), a,
                   WithBounds(i))

DRemovePathsOutside ==
    \E i \in DOMAIN objs, a \in Sizes :
        Returns("remove_paths_outside", i,
                remove_paths_outside(lists[objs[i].paths], a[1], a[2]), a, objs)

DrawNext ==
    \/ DNew
    \/ DNewOver
    \/ DAdd
    \/ DRead
    \/ DTransform
    \/ DTranslate
    \/ DScale
    \/ DRotate
    \/ DMove
    \/ DOrigin
    \/ DCenter
    \/ DRemovePathsOutside

\* No Device is built: Drawing objects and their methods only.
DrawSpec == InitWith({NoKwargs}) /\ [][DrawNext]_vars

----------------------------------------------------------------------------
\* What the claims speak of.

IsXM(e) == e.cmd = "XM"
\* The XM commands of the current run_plan call, in the order written.
XMs == SelectSeq(wire, IsXM)

RECURSIVE SumFirst(_)
SumFirst(w) == IF w = <<>> THEN 0 ELSE Head(w).a + SumFirst(Tail(w))
RECURSIVE SumSecond(_)
SumSecond(w) == IF w = <<>> THEN 0 ELSE Head(w).b + SumSecond(Tail(w))

\* The plan's total displacement, instant(plan.t).p - instant(0).p, in quanta.
PlanDisplacement == Sub(Last(plan.path), plan.path[1])
\* All ticks of the current run_plan call are done and the call has not returned.
LoopDone == pc = "wait"
\* No plan is in the middle of its ticks.
PlansDone == pc \in {"wait", "drawing", "idle"}
CeilDiv(a, b) == (a + b - 1) \div b

\* C1: in every state of a session, after construction and after every tick of
\* every run_plan call, the residual error is below one step in magnitude on
\* each axis.
C1_ResidualBelowOneStep ==
    /\ Abs(error[1]) < PosDen
    /\ Abs(error[2]) < PosDen

\* A tick has run on a residual carried in from an earlier plan and has left
\* a residual on both axes.
C1_Witness ==
    /\ pc = "tick"
    /\ XMs # <<>>
    /\ plan.e0[1] # 0 /\ plan.e0[2] # 0
    /\ error[1] # 0 /\ error[2] # 0

\* C2: whenever the plans run so far are complete, the session's sum of emitted
\* deltas differs from the sum of the plans' scaled displacements by less than
\* one step on each axis.
C2_DriftBelowOneStep ==
    PlansDone => /\ Abs(drift[1]) < PosDen
                 /\ Abs(drift[2]) < PosDen

\* C3: when the ticks of a run_plan call are done, the deltas emitted in the
\* call sum to the plan's scaled displacement within one step on each axis,
\* whatever residual the call started with.
C3_PlanSumWithinOneStep ==
    LoopDone =>
        /\ Abs(SumFirst(XMs) * PosDen - Scale(PlanDisplacement[1])) <= PosDen
        /\ Abs(SumSecond(XMs) * PosDen - Scale(PlanDisplacement[2])) <= PosDen

\* C4: the first delta of every XM command is the integer part of the scaled
\* (dx + dy) plus the first axis's residual, the second that of the scaled
\* (dx - dy) plus the second axis's residual.
C4_DeltasAreMotorAxes ==
    \A i \in DOMAIN wire :
        IsXM(wire[i]) =>
            /\ wire[i].a = ModfInt(Scale(wire[i].d[1] + wire[i].d[2]) + wire[i].e[1])
            /\ wire[i].b = ModfInt(Scale(wire[i].d[1] - wire[i].d[2]) + wire[i].e[2])

\* C5: for a plan run from zero residual, the summed deltas of its XM commands,
\* read as step counters through read_position, give the plan's displacement
\* within one step (FracDen quanta) on each axis.
C5_RoundTrip ==
    (LoopDone /\ plan.e0 = <<0, 0>>) =>
        LET back == ReadPosition(SumFirst(XMs), SumSecond(XMs))
        IN  /\ Abs(back[1] - PlanDisplacement[1]) <= FracDen
            /\ Abs(back[2] - PlanDisplacement[2]) <= FracDen

\* C6: every time run_plan has sampled the plan at lies in 0..plan.t.
C6_SamplesInRange ==
    \A i \in DOMAIN wire :
        IsXM(wire[i]) =>
            /\ 0 <= wire[i].t1 /\ wire[i].t1 <= plan.T
            /\ 0 <= wire[i].t2 /\ wire[i].t2 <= plan.T

\* C7: run_plan writes one XM command per tick t_k = k * 15 ms below plan.t, in
\* tick order, each with duration 15 ms and two integer deltas: none once
\* t_k >= plan.t, so ceil(plan.t / 15 ms) in all, and none for a plan of
\* duration zero.
C7_OneCommandPerTick ==
    (pc \in {"tick", "wait"}) =>
        /\ \A i \in DOMAIN XMs :
            /\ XMs[i].t1 = (i - 1) * TIMESLICE_MS
            /\ XMs[i].t1 < plan.T
            /\ XMs[i].ms = 15
            /\ XMs[i].a \in Int /\ XMs[i].b \in Int
        /\ t = Len(XMs) * TIMESLICE_MS
        /\ pc = "tick" => wire = XMs
        /\ LoopDone =>
            /\ t >= plan.T
            /\ Len(XMs) = CeilDiv(plan.T, 15)
            /\ plan.T = 0 => XMs = <<>>

\* The loop of a plan whose duration is no whole number of ticks has ended,
\* after two commands.
C7_Witness ==
    /\ LoopDone
    /\ plan.T % TIMESLICE_MS # 0
    /\ Len(XMs) = 2

\* A QM answer that reports the motors idle: an answer, with no '1' in it.
IdleReport(resp) == resp # <<>> /\ ~ContainsOne(resp)

\* C8: run_plan has returned only on a QM answer reporting the motors idle, and
\* within a call no XM command follows a QM query.
C8_ReturnsAfterIdleReport ==
    /\ (pc \in {"idle", "drawing"} /\ lastCmd = <<"QM">>) => IdleReport(status)
    /\ \A i, j \in DOMAIN wire :
        (i < j /\ wire[i].cmd = "QM") => wire[j].cmd = "QM"

\* The trace the claim gives for run_drawing from path n on, the pen up and
\* the last position pos.
RECURSIVE TraceFrom(_, _, _)
TraceFrom(paths, n, pos) ==
    IF n > Len(paths)
    THEN <<[ev |-> "run_path", arg |-> 0, path |-> <<pos, <<0, 0>>>>]>>
    ELSE <<[ev |-> "run_path", arg |-> 0, path |-> <<pos, paths[n][1]>>],
           [ev |-> "SP", arg |-> 0, path |-> <<>>],
           [ev |-> "run_path", arg |-> 0, path |-> paths[n]],
           [ev |-> "SP", arg |-> 1, path |-> <<>>]>>
         \o TraceFrom(paths, n + 1, paths[n][Len(paths[n])])
ExpectedTrace(paths) ==
    <<[ev |-> "SP", arg |-> 1, path |-> <<>>]>> \o TraceFrom(paths, 1, <<0, 0>>)
IsPrefix(a, b) == Len(a) <= Len(b) /\ SubSeq(b, 1, Len(a)) = a

\* C9: run_drawing's pen commands and run_path calls follow the trace raise,
\* then per path travel, lower, path, raise, then travel to (0, 0); every step
\* command of a travel is written with the pen raised, every one of a path
\* with the pen lowered, and the pen is up when run_drawing returns.
C9_DrawingTrace ==
    op = "run_drawing" =>
        /\ IsPrefix(dlog, ExpectedTrace(drawing))
        /\ \A i \in DOMAIN XMs :
            /\ plan.phase = "travel" => XMs[i].pen = "UP"
            /\ plan.phase = "draw" => XMs[i].pen = "DOWN"
            /\ plan.phase \in {"travel", "draw"}
            /\ plan.path = dlog[Len(dlog)].path
            /\ (plan.phase = "draw") <=> (dlog[Len(dlog) - 1] = [ev |-> "SP", arg |-> 0, path |-> <<>>])
        /\ (pc = "drawing" /\ dstep = "end") =>
            /\ dlog = ExpectedTrace(drawing)
            /\ pen = "UP"

\* run_drawing is about to return from a drawing of two paths.
C9_Witness ==
    /\ op = "run_drawing"
    /\ pc = "drawing" /\ dstep = "end"
    /\ Len(drawing) = 2
    /\ Len(dlog) = 10

\* C10: every step command of move, goto and home is written with the pen not
\* lowered (a pen no command has moved yet counts as up).
C10_TravelWithPenUp ==
    op \in {"move", "goto", "home"} =>
        \A i \in DOMAIN XMs : XMs[i].pen # "DOWN"

----------------------------------------------------------------------------
\* The constructor, the pen and the transport.

\* A step of run_plan's loop: one more XM command, t one tick on.
TickStep ==
    /\ pc = "tick" /\ pc' = "tick"
    /\ t' = t + TIMESLICE_MS
    /\ Len(wire') = Len(wire) + 1

\* C11: the residual is (0, 0) when the constructor is done, whatever keyword
\* arguments it was called with; after that only a tick of run_plan changes
\* it, so a plan's first tick starts from the residual the plan before it left.
C11_OnlyTicksChangeResidual ==
    [][/\ pc = "new" => error' = <<0, 0>>
       /\ (pc # "new" /\ error' # error) => TickStep
       /\ (pc = "tick" /\ t = 0) => error = plan.e0]_vars
\* A plan starts from a residual an earlier plan left.
C11_Witness ==
    /\ pc = "tick" /\ t = 0 /\ wire = <<>>
    /\ error # <<0, 0>> /\ plan.e0 = error
    /\ opsLeft < MaxOps - 1

\* C12: pen_up sends SP,1,delay and pen_down sends SP,0,delay, the delay being
\* max(0, floor(1000 * |up - down| / speed) + extra delay) with the speed and
\* the extra delay of that direction; no delay sent is negative, and with the
\* default settings the delay is 66 either way.
C12_PenDelay ==
    LET delta == Abs(cfg.pen_up_position - cfg.pen_down_position)
        up    == Max(0, ((1000 * delta) \div cfg.pen_up_speed) + cfg.pen_up_delay)
        down  == Max(0, ((1000 * delta) \div cfg.pen_down_speed) + cfg.pen_down_delay)
    IN  /\ op = "pen_up" => lastCmd = <<"SP", 1, up>>
        /\ op = "pen_down" => lastCmd = <<"SP", 0, down>>
        /\ lastCmd[1] = "SP" => lastCmd[3] >= 0
        /\ (lastCmd[1] = "SP" /\ cfg = Defaults) => lastCmd[3] = 66
\* pen_down with an extra delay below minus the duration: the delay sent is 0.
C12_Witness ==
    /\ op = "pen_down"
    /\ cfg.pen_down_delay < 0
    /\ (1000 * Abs(cfg.pen_up_position - cfg.pen_down_position))
            \div cfg.pen_down_speed + cfg.pen_down_delay < 0
    /\ lastCmd = <<"SP", 0, 0>>

\* C13: when the read of a command's answer times out inside run_path or
\* run_drawing, the call ends with an error raised to the caller, and after an
\* error no command is written: nothing is sent again, nothing follows.
C13_FailureEndsOperation ==
    [][/\ (/\ pc = "wait" /\ pc' # "wait"
           /\ op \in {"run_path", "run_drawing"}
           /\ lastCmd' = <<"QM">> /\ status' = <<>>) => pc' = "raised"
       /\ pc = "raised" => (lastCmd' = lastCmd /\ sc' = sc)]_vars

\* C14: when find_port finds no port, the constructor fails with the port
\* never opened and no command written, and no plan is made in the session.
C14_NoPortNoCommand ==
    (pc # "new" /\ port = NoPort) =>
        /\ pc = "failed"
        /\ serial = "none"
        /\ sc = <<>> /\ lastCmd = NoCmd /\ reads = 0 /\ wire = <<>>
        /\ pen = "IDLE"
        /\ plan = NoPlan /\ op = "none"
\* The constructor has failed for want of a port.
C14_Witness == pc = "failed" /\ port = NoPort /\ serial = "none"

\* C16: the response lines read after a command are one, or two after QS,
\* and no command is written while a response line of an earlier command is
\* unread.
C16_ResponsesPaired ==
    [][/\ lastCmd' # NoCmd =>
            reads' = (IF lastCmd'[1] = "QS" THEN 2 ELSE 1)
       /\ unread => (lastCmd' = lastCmd /\ sc' = sc)]_vars

\* The pen position the keyword arguments kw leave in attribute n.
Given(kw, n) == IF n \in DOMAIN kw THEN kw[n] ELSE Defaults[n]

\* C17: the constructor writes SC for channels 4, 5, 11 and 12, once each, as
\* the first commands of the session and with the positions the keyword
\* arguments set; afterwards pen_up, pen_down, move and the ticks and waits of
\* run_plan write no SC, only configure() does; and a pen position of 0..100
\* maps to an SC value floor(7500 + 20500 * p / 100) within 7500..28000.
C17_ServoSetupOnce ==
    [][/\ (pc = "new" /\ pc' = "idle") =>
            /\ lastCmd = NoCmd /\ sc = <<>>
            /\ Len(sc') = 4
            /\ <<sc'[1][1], sc'[2][1], sc'[3][1], sc'[4][1]>>
                    = <<"SC", "SC", "SC", "SC">>
            /\ <<sc'[1][2], sc'[2][2], sc'[3][2], sc'[4][2]>> = <<4, 5, 11, 12>>
            /\ sc'[1][3] = (750000 + 20500 * Given(kwargs, "pen_up_position")) \div 100
            /\ sc'[2][3] = (750000 + 20500 * Given(kwargs, "pen_down_position")) \div 100
            /\ lastCmd' = sc'[4]
       /\ (pc # "new" /\ sc' # sc) => (pc = "idle" /\ op' = "configure")
       /\ (pc \in {"tick", "wait"} \/ op' \in {"pen_up", "pen_down", "move"}) =>
            sc' = sc
       /\ \A p \in 0..100 :
            /\ ServoPosition(p) = (750000 + 20500 * p) \div 100
            /\ 7500 <= ServoPosition(p) /\ ServoPosition(p) <= 28000]_vars
\* A session built with pen positions of its own is in the ticks of a move.
C17_Witness ==
    /\ pc = "tick" /\ op = "move" /\ lastCmd[1] = "XM"
    /\ cfg.pen_up_position = 100 /\ cfg.pen_down_position = 0
    /\ sc = ConfigureCmds(cfg)
    /\ sc[1] = <<"SC", 4, 28000>> /\ sc[2] = <<"SC", 5, 7500>>

\* run_plan is running: in its loop or in the wait behind it.
InRunPlan == pc \in {"tick", "wait"}

\* C18: run_plan ends.  Its loop adds one tick to t in every iteration and runs
\* only while t is below the plan's length, so it is over after finitely many
\* ticks; the wait behind it ends on no count of polls, only on a QM answer
\* that reports no motor busy, so that run_plan never returns while every
\* answer reports a motor busy; and when the board does in the end answer that
\* nothing is busy, every run_plan that was started is left again.
C18_RunPlanTerminates ==
    /\ [](pc = "tick" => t < plan.T + TIMESLICE_MS)
    /\ [][/\ (pc = "tick" /\ pc' = "tick") =>
                (LoopCond(t, plan.T) /\ t' = t + TIMESLICE_MS)
          /\ (pc = "wait" /\ pc' = "wait") => polls' = polls + 1
          /\ (pc = "wait" /\ pc' \in {"idle", "drawing"}) =>
                (lastCmd' = <<"QM">> /\ ~ContainsOne(status'))]_vars
    /\ InRunPlan ~> ~InRunPlan

\* run_path's plan is run to its last tick and the wait has had a busy answer,
\* the most the session gives, and run_plan is still waiting.
C18_Witness ==
    /\ pc = "wait" /\ op = "run_path"
    /\ polls = MaxPolls /\ ContainsOne(status)
    /\ lastCmd = <<"QM">>
    /\ Len(wire) > MaxPolls

----------------------------------------------------------------------------
\* Drawing.

\* C15: whatever Drawings have been built, over lists of their own or over
\* the list of another, and whatever add calls and reads of bounds have been
\* made, the bounds a Drawing returns are the least and the greatest x and y
\* of the points now in its paths, or all zero when it has none.
C15_BoundsNeverStale ==
    \A i \in DOMAIN objs :
        LET pts == AllPoints(lists[objs[i].paths])
            b   == BoundsOf(i)
        IN  IF pts = {} THEN b = <<0, 0, 0, 0>>
            ELSE /\ \E p \in pts : p[1] = b[1]
                 /\ \E p \in pts : p[2] = b[2]
                 /\ \E p \in pts : p[1] = b[3]
                 /\ \E p \in pts : p[2] = b[4]
                 /\ \A p \in pts : b[1] <= p[1] /\ p[1] <= b[3]
                 /\ \A p \in pts : b[2] <= p[2] /\ p[2] <= b[4]

\* The point lists run_drawing has handed to run_path, in order.
IsRunPath(e) == e.ev = "run_path"
RECURSIVE PathsOf(_)
PathsOf(log) ==
    IF log = <<>> THEN <<>>
    ELSE (IF IsRunPath(Head(log)) THEN <<Head(log).path>> ELSE <<>>)
            \o PathsOf(Tail(log))

\* C19: for a drawing of n non-empty paths, the point lists run_drawing has
\* handed to the planner, looked at between any two of its calls, are those
\* of all_paths in their order, which plan_drawing plans: in the end 2n + 1 of
\* them, a travel before each path and one at the end, the first from (0, 0),
\* the last to (0, 0), each starting where the one before it ended.
C19_RunDrawingPlansAllPaths ==
    (op = "run_drawing" /\ pc = "drawing") =>
        LET handed == PathsOf(dlog)
            n      == Len(drawing)
        IN  /\ IsPrefix(handed, all_paths(drawing))
            /\ dstep = "end" =>
                /\ handed = all_paths(drawing)
                /\ handed = plan_drawing(drawing)
                /\ Len(handed) = 2 * n + 1
                /\ handed[1][1] = <<0, 0>>
                /\ Last(Last(handed)) = <<0, 0>>
                /\ \A i \in 2..Len(handed) : handed[i][1] = Last(handed[i - 1])
                /\ \A i \in 1..n :
                        Len(handed[2 * i - 1]) = 2 /\ handed[2 * i] = drawing[i]
                /\ Len(handed[2 * n + 1]) = 2
                /\ n = 0 => handed = << <<Origin, Origin>> >>
\* run_drawing has handed over the last travel of a drawing of two paths.
C19_Witness ==
    /\ op = "run_drawing" /\ dstep = "end" /\ pc = "drawing"
    /\ Len(drawing) = 2 /\ drawing[1] # drawing[2]
    /\ Len(PathsOf(dlog)) = 5

\* The Drawing methods that return a transformed Drawing.
TransformNames ==
    {"transform", "translate", "scale", "rotate", "move", "origin", "center",
     "remove_paths_outside"}

\* C20: a call of transform, translate, scale, rotate, move, origin, center or
\* remove_paths_outside returns a new Drawing over a list of its own and
\* leaves every Drawing there was with the paths and the bounds it had; a list
\* changes only by add, which appends the other Drawing's paths to the
\* receiver's; and remove_paths_outside returns, in order, the paths whose
\* points all lie in 0..width by 0..height.
C20_OnlyAddMutates ==
    [][/\ (Len(objs') > Len(objs) /\ dop'.name \in TransformNames) =>
            /\ dop'.ret = Len(objs')
            /\ objs'[dop'.ret].paths \notin DOMAIN lists
            /\ \A i \in DOMAIN objs :
                /\ objs'[i].paths = objs[i].paths
                /\ lists'[objs'[i].paths] = lists[objs[i].paths]
                /\ BoundsOf(i)' = BoundsOf(i)
       /\ (\E l \in DOMAIN lists : lists'[l] # lists[l]) =>
            /\ Len(objs') = Len(objs)
            /\ \E i \in DOMAIN objs, other \in Others :
                /\ lists'[objs[i].paths] = lists[objs[i].paths] \o other
                /\ \A l \in DOMAIN lists \ {objs[i].paths} : lists'[l] = lists[l]
       /\ (Len(objs') > Len(objs) /\ dop'.name = "remove_paths_outside") =>
            LET w == dop'.arg[1]
                h == dop'.arg[2]
                Inside(path) ==
                    \A j \in DOMAIN path :
                        /\ 0 <= path[j][1] /\ path[j][1] <= w
                        /\ 0 <= path[j][2] /\ path[j][2] <= h
            IN  lists'[objs'[dop'.ret].paths]
                    = SelectSeq(lists[objs[dop'.self].paths], Inside)]_vars
\* remove_paths_outside has dropped one path of its receiver and kept one
\* that touches the edge.
C20_Witness ==
    /\ dop.name = "remove_paths_outside"
    /\ lists[objs[dop.self].paths] = <<Dot, Stroke>>
    /\ lists[objs[dop.ret].paths] = <<Stroke>>
    /\ Cached(objs[dop.self].bounds)

====
